---------------------------- MODULE Spec2Model ----------------------------
(***************************************************************************)
(* A model of the hotkey engine of src/main.py (MMO Deck):                 *)
(*   - the tap/hold refresh gesture (_refresh_press, _hold_action,         *)
(*     _refresh_release) with its threading.Timer;                         *)
(*   - the press-tracked actions (maximize, toggle desktop, open This PC,  *)
(*     prev/next tab, volume down/up) with their repeat threads;           *)
(*   - the window tiling cycle (_cycle_widths, _cycle_heights) with its    *)
(*     debounce clock.                                                     *)
(* Key notifications are delivered one at a time by the keyboard library's *)
(* dispatch thread; timers and repeat runners are threads of their own and *)
(* interleave with it between the statements modelled as separate steps.   *)
(* Durations are in milliseconds; ratios are in units of 1/10000.          *)
(***************************************************************************)
EXTENDS Integers, Sequences, FiniteSets, TLC

\* ------------------------------------------------------------------ bounds
\* Refresh gestures (presses accepted by _refresh_press) per behaviour.
MaxGestures == 3

\* The wall clock (time.time(), in ms) runs from StartTime to MaxTime.
StartTime == 1000

MaxTime == 1200

\* The largest work-area side (pixels) the model draws.
MaxSide == 40

\* Repeat threads started per behaviour.
MaxTickers == 2

\* Press-tracked keys held down at once.
MaxHeld == 2

\* The history counters run_presses and run_fires count up to MaxRun.
MaxRun == 2

\* A timed repeat gesture is followed for MaxAge ms after its press.
MaxAge == 600

\* The fixed step of time of the timed repeat gestures, in ms.
TimeStep == 50

\* _rect_close is called on rectangles up to MaxDelta apart in each
\* coordinate, with tolerances up to MaxTol.
MaxDelta == 3

MaxTol == 2

\* _clamp_width_to_work_area is called on edges from -1 to MaxCoord.
MaxCoord == 5

\* The press-tracked keys the user works in one behaviour of SpecKeys (the
\* other keys stay untouched in it).
MaxCast == 1

\* ------------------------------------------------------- program constants
REFRESH_HOLD_THRESHOLD_MS == 400

WINDOW_CYCLE_DEBOUNCE_MS == 100

TAB_REPEAT_INITIAL_MS == 350

TAB_REPEAT_MS == 120

VOLUME_REPEAT_INITIAL_MS == 350

VOLUME_REPEAT_MS == 30

WINDOW_POS_TOL_PX == 2

\* WINDOW_WIDTHS = [0.5040, 0.3372, 0.6707], in units of 1/RatioScale
RatioScale == 10000

WINDOW_WIDTHS == <<5040, 3372, 6707>>

LEFT_HOTKEY == "f13"

RIGHT_HOTKEY == "f15"

REFRESH_HOTKEY == "f16"

MAX_HOTKEY == "f14"

PREV_TAB_HOTKEY == "f17"

NEXT_TAB_HOTKEY == "f18"

OPEN_THIS_PC_HOTKEY == "f21"

TOGGLE_DESKTOP_HOTKEY == "f22"

VOLUME_DOWN_HOTKEY == "f23"

VOLUME_UP_HOTKEY == "f24"

CycleKeys == {LEFT_HOTKEY, RIGHT_HOTKEY}

\* -------------------------------------------------------------------- state
VARIABLES
    disp,           \* the dispatch thread: "idle", or the handler it is inside
    refresh_state,  \* the dict _refresh_state
    rtimer,         \* the threading.Timer threads, one per refresh gesture
    n_gest,         \* refresh gestures started so far (timer ids 1..n_gest)
    taps,           \* history: _refresh_tap() calls per refresh gesture
    holds,          \* history: _refresh_hold() calls per timer (gesture)
    released,       \* history: gestures whose release handler has returned
    early,          \* history: gestures released before their 400 ms were over
    held_out,       \* history: gestures whose timer callback ended before release
    now,            \* time.time(), in ms
    last_trigger,   \* _last_trigger, in ms
    pass_at,        \* history: when the last invocation passed the debounce (-1: never)
    pass_axis,      \* history: the axis of that invocation
    work_area,      \* the monitor's work area (l, t, r, b)
    fg,             \* the foreground window: "none", "app" or "shell"
    win,            \* the app window: its normal rectangle and whether it is maximized
    shift,          \* keyboard.is_pressed("shift")
    key_down,       \* the cycle keys physically held down
    moves_held,     \* history: geometry changes per cycle key since it went down
    last_cycle,     \* history: the last cycle invocation
    trail,          \* history: rectangles of consecutive accepted cycles of one axis
    tab_state,      \* the dict _tab_state: key -> its repeat thread (0: no entry)
    volume_state,   \* the dict _volume_state, likewise
    toggle_state,   \* the set _toggle_state
    this_pc_state,  \* the set _this_pc_state
    maximize_state, \* the set _maximize_state
    ctrl,           \* keyboard.is_pressed("ctrl")
    ticker,         \* the repeat threads
    n_tick,         \* repeat threads started so far (ids 1..n_tick)
    out,            \* history: what the last step did
    run_presses,    \* history: press notifications per action since its last release
    run_fires,      \* history: immediate fires per action since its last release
    meter,          \* history: per repeat thread, its gesture's age and step count
    probe,          \* a call of a pure function: its arguments and its result
    cast            \* the press-tracked keys the user works in this behaviour

varsRefresh == <<refresh_state, rtimer, n_gest, taps, holds, released, early, held_out>>

varsTile == <<now, last_trigger, pass_at, pass_axis, work_area, fg, win, shift, key_down, moves_held,
              last_cycle, trail>>

varsGest == <<tab_state, volume_state, toggle_state, this_pc_state, maximize_state,
              ctrl, ticker, n_tick, out, run_presses, run_fires>>

vars == <<disp, varsRefresh, varsTile, varsGest, meter, probe, cast>>

Gestures == 1..MaxGestures

Min(a, b) == IF a < b THEN a ELSE b

Max(a, b) == IF a > b THEN a ELSE b

\* --------------------------------------------------- the dict _refresh_state
\* A Python dict with the keys "active", "hold", "timer": `keys` holds the
\* keys present, and an absent key's field is FALSE / 0.
EmptyDict == [keys |-> {}, active |-> FALSE, hold |-> FALSE, timer |-> 0]

\* d.get(k) is truthy
Truthy(d, k) ==
    /\ k \in d.keys
    /\ CASE k = "active" -> d.active
         [] k = "hold"   -> d.hold
         [] OTHER        -> d.timer # 0

\* {"active": True, "hold": False}, then ["timer"] = t
PressedDict(t) ==
    [keys |-> {"active", "hold", "timer"}, active |-> TRUE, hold |-> FALSE, timer |-> t]

\* A timer callback that clears the dict instead of setting the hold flag.
WithHoldCleared(d) == EmptyDict

\* d["hold"] = True
WithHold(d) == [d EXCEPT !.keys = @ \cup {"hold"}, !.hold = TRUE]

\* A threading.Timer: pc is where its thread is, finished is its Event
\* (set by cancel()), left is what remains of the interval.
NoTimer == [pc |-> "unborn", finished |-> FALSE, left |-> 0]

InitRefresh ==
    /\ refresh_state = EmptyDict
    /\ rtimer = [g \in Gestures |-> NoTimer]
    /\ n_gest = 0
    /\ taps = [g \in Gestures |-> 0]
    /\ holds = [g \in Gestures |-> 0]
    /\ released = {}
    /\ early = {}
    /\ held_out = {}

\* ------------------------------------------------------------ _refresh_press
\* if _refresh_state.get("active"): return
RefreshPressIgnored ==
    /\ disp = "idle"
    /\ Truthy(refresh_state, "active")
    /\ UNCHANGED vars

\* _refresh_state = {"active": True, "hold": False}; timer.start()
RefreshPressStart ==
    /\ disp = "idle"
    /\ ~Truthy(refresh_state, "active")
    /\ n_gest < MaxGestures
    /\ n_gest' = n_gest + 1
    /\ refresh_state' = PressedDict(n_gest + 1)
    /\ rtimer' = [rtimer EXCEPT ![n_gest + 1] =
                     [pc |-> "waiting", finished |-> FALSE,
                      left |-> REFRESH_HOLD_THRESHOLD_MS]]
    /\ UNCHANGED <<disp, taps, holds, released, early, held_out, varsTile, varsGest, meter, probe, cast>>

\* ---------------------------------------------------------- _refresh_release
\* state = _refresh_state; timer = state.get("timer"); if timer: timer.cancel()
RefreshReleaseCancel ==
    /\ disp = "idle"
    /\ disp' = "refresh_release_test"
    /\ rtimer' = IF Truthy(refresh_state, "timer")
                 THEN [rtimer EXCEPT ![refresh_state.timer].finished = TRUE]
                 ELSE rtimer
    /\ held_out' = IF Truthy(refresh_state, "active")
                      /\ rtimer[refresh_state.timer].pc = "done"
                   THEN held_out \cup {refresh_state.timer}
                   ELSE held_out
    /\ UNCHANGED <<refresh_state, n_gest, taps, holds, released, early, varsTile, varsGest, meter, probe, cast>>

\* A release that calls the tap action whatever the dict holds.
TapAlways(d) == TRUE

\* the test of _refresh_release
TapDue(d) == Truthy(d, "active") /\ ~Truthy(d, "hold")

\* if state.get("active") and not state.get("hold"): _refresh_tap()
RefreshReleaseTap ==
    /\ disp = "refresh_release_test"
    /\ disp' = "refresh_release_clear"
    /\ taps' = IF TapDue(refresh_state) /\ n_gest > 0
               THEN [taps EXCEPT ![n_gest] = @ + 1]
               ELSE taps
    /\ UNCHANGED <<refresh_state, rtimer, n_gest, holds, released, early, held_out, varsTile, varsGest, meter, probe, cast>>

\* _refresh_state = {}
RefreshReleaseClear ==
    /\ disp = "refresh_release_clear"
    /\ disp' = "idle"
    /\ refresh_state' = EmptyDict
    /\ released' = IF Truthy(refresh_state, "active")
                   THEN released \cup {refresh_state.timer}
                   ELSE released
    /\ early' = IF Truthy(refresh_state, "active")
                   /\ rtimer[refresh_state.timer].left > 0
                THEN early \cup {refresh_state.timer}
                ELSE early
    /\ UNCHANGED <<rtimer, n_gest, taps, holds, held_out, varsTile, varsGest, meter, probe, cast>>

\* ------------------------------------------------- Timer.run / _hold_action
\* self.finished.wait(interval) times out and finished is not set: the timer
\* thread goes on to call _hold_action
TimerExpire(g) ==
    /\ rtimer[g].pc = "waiting"
    /\ rtimer[g].left = 0
    /\ ~rtimer[g].finished
    /\ rtimer' = [rtimer EXCEPT ![g].pc = "call"]
    /\ UNCHANGED <<disp, refresh_state, n_gest, taps, holds, released, early, held_out, varsTile, varsGest, meter, probe, cast>>

\* the wait ends because cancel() set finished: the function is not called
TimerCancelled(g) ==
    /\ rtimer[g].pc = "waiting"
    /\ rtimer[g].finished
    /\ rtimer' = [rtimer EXCEPT ![g].pc = "done"]
    /\ UNCHANGED <<disp, refresh_state, n_gest, taps, holds, released, early, held_out, varsTile, varsGest, meter, probe, cast>>

\* if _refresh_state.get("active"):
HoldTest(g) ==
    /\ rtimer[g].pc = "call"
    /\ rtimer' = [rtimer EXCEPT ![g].pc =
                     IF Truthy(refresh_state, "active") THEN "set_hold" ELSE "done",
                                ![g].finished =
                     IF Truthy(refresh_state, "active") THEN @ ELSE TRUE]
    /\ UNCHANGED <<disp, refresh_state, n_gest, taps, holds, released, early, held_out, varsTile, varsGest, meter, probe, cast>>

\* _refresh_state["hold"] = True
HoldSet(g) ==
    /\ rtimer[g].pc = "set_hold"
    /\ refresh_state' = WithHold(refresh_state)
    /\ rtimer' = [rtimer EXCEPT ![g].pc = "fire_hold"]
    /\ UNCHANGED <<disp, n_gest, taps, holds, released, early, held_out, varsTile, varsGest, meter, probe, cast>>

\* _refresh_hold(); then Timer.run sets finished
HoldFire(g) ==
    /\ rtimer[g].pc = "fire_hold"
    /\ holds' = [holds EXCEPT ![g] = @ + 1]
    /\ rtimer' = [rtimer EXCEPT ![g].pc = "done", ![g].finished = TRUE]
    /\ UNCHANGED <<disp, refresh_state, n_gest, taps, released, early, held_out, varsTile, varsGest, meter, probe, cast>>

\* Time passes for the waiting timers.
ElapseRefresh(d) ==
    /\ \E g \in Gestures : rtimer[g].pc = "waiting" /\ rtimer[g].left > 0
    /\ rtimer' = [g \in Gestures |->
                     IF rtimer[g].pc = "waiting"
                     THEN [rtimer[g] EXCEPT !.left = Max(0, @ - d)]
                     ELSE rtimer[g]]
    /\ UNCHANGED <<disp, refresh_state, n_gest, taps, holds, released, early, held_out, varsTile, varsGest, meter, probe, cast>>

RefreshDeltas == {100, 300}

NextRefresh ==
    \/ RefreshPressIgnored
    \/ RefreshPressStart
    \/ RefreshReleaseCancel
    \/ RefreshReleaseTap
    \/ RefreshReleaseClear
    \/ \E g \in Gestures : TimerExpire(g)
    \/ \E g \in Gestures : TimerCancelled(g)
    \/ \E g \in Gestures : HoldTest(g)
    \/ \E g \in Gestures : HoldSet(g)
    \/ \E g \in Gestures : HoldFire(g)
    \/ \E d \in RefreshDeltas : ElapseRefresh(d)

\* ================================================================ tiling
\* A rectangle is <<l, t, r, b>>.
Axes == {"left", "right", "top", "bottom"}

\* Python's round() of the quotient n / d (d > 0): to nearest, ties to even.
PyRound(n, d) ==
    LET q == n \div d
        rem == n % d
    IN  IF 2 * rem < d THEN q
        ELSE IF 2 * rem > d THEN q + 1
        ELSE IF q % 2 = 0 THEN q ELSE q + 1

Abs(x) == IF x < 0 THEN -x ELSE x

\* A comparison that leaves out the bottom edge.
RectCloseThreeEdges(a, b, tol) == \A i \in 1..3 : Abs(a[i] - b[i]) <= tol

\* all(abs(a[i] - b[i]) <= tol for i in range(4))
RectClose(a, b, tol) == \A i \in 1..4 : Abs(a[i] - b[i]) <= tol

\* _make_target_rect(work_area, width_ratio, side), side "left" or "right"
MakeTargetRect(wa, ratio, side) ==
    LET work_w == wa[3] - wa[1]
        work_h == wa[4] - wa[2]
        target_w == PyRound(work_w * ratio, RatioScale)
        t == wa[2]
        b == wa[2] + work_h
    IN  IF side = "left"
        THEN <<wa[1], t, wa[1] + target_w, b>>
        ELSE <<wa[3] - target_w, t, wa[3], b>>

\* targets = [_make_target_rect(work_area, w, side) for w in WINDOW_WIDTHS]
WidthTargets(wa, side) ==
    [i \in 1..Len(WINDOW_WIDTHS) |-> MakeTargetRect(wa, WINDOW_WIDTHS[i], side)]

\* A clamp that always moves the rectangle to the left edge of the work area.
ClampSnapLeft(rect, wa) ==
    <<wa[1], rect[2], wa[1] + Min(rect[3] - rect[1], wa[3] - wa[1]), rect[4]>>

\* A clamp that does not move the left edge back when the rectangle hangs
\* over the right edge of the work area.
ClampNoShift(rect, wa) ==
    LET width == Min(rect[3] - rect[1], wa[3] - wa[1])
        l == Max(wa[1], rect[1])
    IN  <<l, rect[2], l + width, rect[4]>>

\* _clamp_width_to_work_area(rect, work_area)
ClampWidthToWorkArea(rect, wa) ==
    LET max_width == wa[3] - wa[1]
        width == Min(rect[3] - rect[1], max_width)
        l1 == Max(wa[1], rect[1])
        l2 == IF l1 + width > wa[3] THEN wa[3] - width ELSE l1
    IN  <<l2, rect[2], l2 + width, rect[4]>>

\* _make_vertical_target_rects(work_area, height_ratios, anchor, current_rect)
MakeVerticalTargetRects(wa, ratios, anchor, current) ==
    LET work_h == wa[4] - wa[2]
        c == ClampWidthToWorkArea(current, wa)
        h(i) == Min(PyRound(work_h * ratios[i], RatioScale), work_h)
    IN  [i \in 1..Len(ratios) |->
            IF anchor = "top"
            THEN <<c[1], wa[2], c[3], wa[2] + h(i)>>
            ELSE <<c[1], wa[4] - h(i), c[3], wa[4]>>]

\* The candidates of an axis for a window whose rectangle is `current`.
Targets(axis, wa, current) ==
    IF axis \in {"left", "right"}
    THEN WidthTargets(wa, axis)
    ELSE MakeVerticalTargetRects(wa, WINDOW_WIDTHS, axis, current)

\* A cycle step that sends a window matching no candidate to the last one.
NextRectOffToLast(current, targets) ==
    LET hits == {i \in 1..Len(targets) : RectClose(current, targets[i], WINDOW_POS_TOL_PX)}
    IN  IF hits = {} THEN targets[Len(targets)]
        ELSE LET i == CHOOSE j \in hits : \A k \in hits : j <= k
             IN  targets[(i % Len(targets)) + 1]

\* A cycle step that always goes back to the first candidate.
NextRectFirst(current, targets) == targets[1]

\* next_rect = targets[0]; for i, tr in enumerate(targets):
\*     if _rect_close(current, tr): next_rect = targets[(i + 1) % len(targets)]; break
NextRect(current, targets) ==
    LET hits == {i \in 1..Len(targets) : RectClose(current, targets[i], WINDOW_POS_TOL_PX)}
    IN  IF hits = {} THEN targets[1]
        ELSE LET i == CHOOSE j \in hits : \A k \in hits : j <= k
             IN  targets[(i % Len(targets)) + 1]

\* A debounce that lets every invocation pass.
DebounceOff(t, last) == TRUE

\* A debounce that also drops the invocation exactly at the end of the window.
DebounceStrict(t, last) == t - last > WINDOW_CYCLE_DEBOUNCE_MS

\* _debounced(): now - _last_trigger < WINDOW_CYCLE_DEBOUNCE_SEC returns False
DebouncePasses(t, last) == ~(t - last < WINDOW_CYCLE_DEBOUNCE_MS)

\* What _get_foreground_window() finds: no window, an application window, or
\* a window of the shell (Progman, WorkerW, Shell_TrayWnd).
Windows == {"none", "app", "shell"}

\* A resolution that only checks hwnd and takes shell windows as targets.
HasAnyWindow == fg # "none"

\* hwnd and not _is_ignorable_window(hwnd)
HasTarget == fg = "app"

\* _cycle_widths on a maximized window: _set_window_rect(hwnd, targets[0])
\* A maximized window restarted at the second candidate.
MaximizedSkipsFirst(targets) == targets[2]

MaximizedRestart(targets) == targets[1]

\* The rectangle and placement _cycle_widths(side) leaves the window with.
WidthsResult(side, w, wa) ==
    LET targets == WidthTargets(wa, side)
    IN  IF w.max
        THEN [rect |-> MaximizedRestart(targets), max |-> FALSE]
        ELSE [rect |-> NextRect(w.rect, targets), max |-> FALSE]

\* The rectangle and placement _cycle_heights(anchor) leaves the window with:
\* a maximized window is restored first and `current` is its restored rectangle.
HeightsResult(anchor, w, wa) ==
    LET current == w.rect
        targets == MakeVerticalTargetRects(wa, WINDOW_WIDTHS, anchor, current)
    IN  [rect |-> NextRect(current, targets), max |-> FALSE]

CycleResult(axis, w, wa) ==
    IF axis \in {"left", "right"} THEN WidthsResult(axis, w, wa)
    ELSE HeightsResult(axis, w, wa)

NoCycle == [axis |-> "none", passed |-> FALSE, hit |-> FALSE, was_max |-> FALSE,
            before |-> <<0, 0, 0, 0>>, gap |-> -1, repeat |-> FALSE, prev_idx |-> 0,
            failed |-> FALSE, raised |-> FALSE]

Horizontal(axis) == axis \in {"left", "right"}

\* history: if the invocation before this one was accepted, was of the other
\* orientation and found a normal window at candidate i of this invocation's
\* axis, then i (counted from 1), else 0.
PrevIndex(axis) ==
    LET cands == Targets(axis, work_area, last_cycle.before)
        at == {i \in 1..Len(cands) : last_cycle.before = cands[i]}
    IN  IF /\ last_cycle.passed /\ last_cycle.hit /\ ~last_cycle.was_max
           /\ Horizontal(last_cycle.axis) # Horizontal(axis)
           /\ at # {}
        THEN CHOOSE i \in at : \A j \in at : i <= j
        ELSE 0

\* The trail of consecutive accepted cycles of one axis on a normal window
\* that started at the axis's candidate 0.
TrailAfter(axis, w, w2) ==
    IF w.max THEN <<>>
    ELSE IF trail # <<>> /\ last_cycle.axis = axis /\ Len(trail) < 4
         THEN Append(trail, w2.rect)
         ELSE IF w.rect = Targets(axis, work_area, w.rect)[1]
              THEN <<w.rect, w2.rect>>
              ELSE <<>>

\* history: the time since the last invocation that passed (-1: there is none)
Gap == IF pass_at < 0 THEN -1 ELSE now - pass_at

\* _cycle_widths(side) / _cycle_heights(anchor); rep: the key was already down
Cycle(axis, rep) ==
    LET seen == [NoCycle EXCEPT !.axis = axis, !.before = win.rect, !.was_max = win.max,
                                !.gap = Gap, !.repeat = rep]
    IN  IF ~DebouncePasses(now, last_trigger)
        THEN /\ last_cycle' = seen
             /\ trail' = <<>>
             /\ UNCHANGED <<last_trigger, pass_at, pass_axis, win>>
        ELSE /\ last_trigger' = now
             /\ pass_at' = now
             /\ pass_axis' = axis
             /\ IF ~HasTarget
                THEN /\ last_cycle' = [seen EXCEPT !.passed = TRUE]
                     /\ trail' = <<>>
                     /\ UNCHANGED win
                ELSE /\ win' = CycleResult(axis, win, work_area)
                     /\ last_cycle' = [seen EXCEPT !.passed = TRUE, !.hit = TRUE,
                                                   !.prev_idx = PrevIndex(axis)]
                     /\ trail' = TrailAfter(axis, win, win')

\* The handlers main() registers for F13 and F15:
\*   _cycle_bottom_heights() if keyboard.is_pressed("shift") else _cycle_left()
\*   _cycle_top_heights()    if keyboard.is_pressed("shift") else _cycle_right()
AxisOfKey(k, sh) ==
    IF k = LEFT_HOTKEY
    THEN (IF sh THEN "bottom" ELSE "left")
    ELSE (IF sh THEN "top" ELSE "right")

\* A cycle key goes down: its press notification runs the handler.
CycleKeyDown(k) ==
    /\ disp = "idle"
    /\ k \notin key_down
    /\ Cycle(AxisOfKey(k, shift), FALSE)
    /\ key_down' = key_down \cup {k}
    /\ moves_held' = [moves_held EXCEPT ![k] = IF win' # win THEN 1 ELSE 0]
    /\ UNCHANGED <<disp, varsRefresh, varsGest, meter, probe, cast, now, work_area, fg, shift>>

\* The key is still down: the OS auto-repeat sends another press notification.
CycleKeyRepeat(k) ==
    /\ disp = "idle"
    /\ k \in key_down
    /\ Cycle(AxisOfKey(k, shift), TRUE)
    /\ moves_held' = [moves_held EXCEPT ![k] = IF win' # win THEN @ + 1 ELSE @]
    /\ UNCHANGED <<disp, varsRefresh, varsGest, meter, probe, cast, now, work_area, fg, shift, key_down>>

\* A press notification of a cycle key, the key's physical state not tracked.
CyclePress(k) ==
    /\ disp = "idle"
    /\ Cycle(AxisOfKey(k, shift), FALSE)
    /\ UNCHANGED <<disp, varsRefresh, varsGest, meter, probe, cast, now, work_area, fg, shift, key_down, moves_held>>

\* The key goes up: main() registers no release handler for the cycle keys.
CycleKeyUp(k) ==
    /\ disp = "idle"
    /\ k \in key_down
    /\ key_down' = key_down \ {k}
    /\ UNCHANGED <<disp, varsRefresh, varsGest, meter, probe, cast, now, last_trigger, pass_at, pass_axis, work_area, fg, win, shift,
                   moves_held, last_cycle, trail>>

\* ------------------------------------------------------- the environment
\* The wall clock advances.
AdvanceClock(d) ==
    /\ now + d <= MaxTime
    /\ now' = now + d
    /\ UNCHANGED <<disp, varsRefresh, varsGest, meter, probe, cast, last_trigger, pass_at, pass_axis, work_area, fg, win, shift, key_down,
                   moves_held, last_cycle, trail>>

\* Shift goes down or up.
ShiftToggle ==
    /\ shift' = ~shift
    /\ UNCHANGED <<disp, varsRefresh, varsGest, meter, probe, cast, now, last_trigger, pass_at, pass_axis, work_area, fg, win, key_down,
                   moves_held, last_cycle, trail>>

\* Rectangles the user drags the window to: the horizontal candidates, the
\* first one also nudged by the tolerance and by one pixel more, a rectangle
\* inside the work area, the first bottom and the last top candidate of its
\* width, and a rectangle hanging over the right edge of the work area.
Nudge(r, n) == <<r[1] + n, r[2] + n, r[3] - n, r[4] - n>>

UserRects(wa) ==
    LET cands == {WidthTargets(wa, s)[i] : s \in {"left", "right"}, i \in 1..3}
        inside == <<wa[1] + 3, wa[2] + 3, wa[3] - 4, wa[4] - 5>>
    IN  cands
        \cup {MakeVerticalTargetRects(wa, WINDOW_WIDTHS, "bottom", inside)[1],
              MakeVerticalTargetRects(wa, WINDOW_WIDTHS, "top", inside)[3]}
        \cup {Nudge(WidthTargets(wa, "left")[1], WINDOW_POS_TOL_PX)}
        \cup {Nudge(WidthTargets(wa, "left")[1], WINDOW_POS_TOL_PX + 1)}
        \cup {inside, <<wa[3] - 5, wa[2] + 1, wa[3] + 9, wa[4] - 1>>}

UserMove(r) ==
    /\ win' = [rect |-> r, max |-> FALSE]
    /\ win' # win
    /\ last_cycle' = NoCycle
    /\ trail' = <<>>
    /\ UNCHANGED <<disp, varsRefresh, varsGest, meter, probe, cast, now, last_trigger, pass_at, pass_axis, work_area, fg, shift, key_down,
                   moves_held>>

\* The user maximizes the window; its rectangle is kept as the one to restore.
UserMaximize ==
    /\ ~win.max
    /\ win' = [win EXCEPT !.max = TRUE]
    /\ last_cycle' = NoCycle
    /\ trail' = <<>>
    /\ UNCHANGED <<disp, varsRefresh, varsGest, meter, probe, cast, now, last_trigger, pass_at, pass_axis, work_area, fg, shift, key_down,
                   moves_held>>

\* Work areas: sides from WorkSides, at two origins.
WorkSides == {12, 17, MaxSide}

WorkAreas == {<<7, 3, 7 + w, 3 + h>> : w \in WorkSides, h \in WorkSides}

OneWorkArea == {<<7, 3, 7 + MaxSide, 3 + MaxSide>>}

InitTile(areas, fgs) ==
    /\ now = StartTime
    /\ last_trigger = 0
    /\ pass_at = -1
    /\ pass_axis = "none"
    /\ work_area \in areas
    /\ fg \in fgs
    /\ win = [rect |-> <<work_area[1] + 3, work_area[2] + 3,
                         work_area[3] - 4, work_area[4] - 5>>, max |-> FALSE]
    /\ shift = FALSE
    /\ key_down = {}
    /\ moves_held = [k \in CycleKeys |-> 0]
    /\ last_cycle = NoCycle
    /\ trail = <<>>

NextTile ==
    \/ \E k \in CycleKeys : CyclePress(k)
    \/ AdvanceClock(WINDOW_CYCLE_DEBOUNCE_MS)
    \/ ShiftToggle
    \/ \E r \in UserRects(work_area) : UserMove(r)
    \/ UserMaximize

\* Cycle keys held down, with the OS auto-repeat, on one work area.
DebounceDeltas == {50}

\* The time of the last cycle invocation.
InvokedAt == IF last_cycle.passed THEN pass_at ELSE pass_at + last_cycle.gap

\* A stream of cycle invocations, of any of the four directions, one every
\* 50 ms from StartTime on: the next invocation of the stream.
StreamPress(k) ==
    /\ last_cycle.axis = "none" \/ InvokedAt < now
    /\ CyclePress(k)

\* 50 ms pass after an invocation of the stream.
StreamTick ==
    /\ last_cycle.axis # "none"
    /\ InvokedAt = now
    /\ \E d \in DebounceDeltas : AdvanceClock(d)

\* Shift goes down or up between two invocations of the stream.
StreamShift ==
    /\ last_cycle.axis # "none" => InvokedAt = now
    /\ ShiftToggle

NextStream ==
    \/ \E k \in CycleKeys : StreamPress(k)
    \/ StreamTick
    \/ StreamShift

NextDebounce ==
    \/ \E k \in CycleKeys : CycleKeyDown(k)
    \/ \E k \in CycleKeys : CycleKeyRepeat(k)
    \/ \E k \in CycleKeys : CycleKeyUp(k)
    \/ \E d \in DebounceDeltas : AdvanceClock(d)
    \/ ShiftToggle

\* ===================================================== press-tracked actions
TabKeys == {PREV_TAB_HOTKEY, NEXT_TAB_HOTKEY}

VolumeKeys == {VOLUME_DOWN_HOTKEY, VOLUME_UP_HOTKEY}

RepeatKeys == TabKeys \cup VolumeKeys

OnceKeys == {MAX_HOTKEY, OPEN_THIS_PC_HOTKEY, TOGGLE_DESKTOP_HOTKEY}

TrackedKeys == RepeatKeys \cup OnceKeys

Tickers == 1..MaxTickers

\* A repeat thread (_runner): pc is where it is, key the action it repeats,
\* stop its threading.Event, left what remains of its wait.
NoTicker == [pc |-> "unborn", key |-> "none", stop |-> FALSE, left |-> 0]

\* What the last step did: the notification handled ("press", "release",
\* "ctrl_press" for a press with Ctrl held, "tick" for a step of a repeat
\* thread), its key, the action invoked (op), the thread that invoked it (by:
\* 0 is the dispatch thread), whether the thread's stop event was already set
\* (late) and whether the key's entry went from absent to present (activated).
NoOut == [note |-> "none", key |-> "none", op |-> "none", by |-> 0, late |-> FALSE,
          activated |-> FALSE]

Note(kind, k, op, act) ==
    [note |-> kind, key |-> k, op |-> op, by |-> 0, late |-> FALSE, activated |-> act]

\* An entry that was absent is present.
Became(was, is) == ~was /\ is

\* name in _tab_state / name in _volume_state (0: no entry)
InDict(d, name) == d[name] # 0

\* name in _toggle_state / _this_pc_state / _maximize_state
InSet(s, name) == name \in s

\* The entries of all five state collections.
ActiveKeys ==
    {k \in TabKeys : InDict(tab_state, k)} \cup {k \in VolumeKeys : InDict(volume_state, k)}
    \cup toggle_state \cup this_pc_state \cup maximize_state

\* history: press notifications and immediate fires of an action since the
\* last release notification of its key, counted up to MaxRun
Counted(f, k) == [f EXCEPT ![k] = Min(@ + 1, MaxRun)]

\* A repeat thread that has ended.
DeadTicker == [pc |-> "dead", key |-> "none", stop |-> TRUE, left |-> 0]

InitGest ==
    /\ tab_state = [k \in TabKeys |-> 0]
    /\ volume_state = [k \in VolumeKeys |-> 0]
    /\ toggle_state = {}
    /\ this_pc_state = {}
    /\ maximize_state = {}
    /\ ctrl = FALSE
    /\ ticker = [i \in Tickers |-> NoTicker]
    /\ n_tick = 0
    /\ out = NoOut
    /\ run_presses = [k \in TrackedKeys |-> 0]
    /\ run_fires = [k \in TrackedKeys |-> 0]

\* A repeat thread whose first wait is as short as the later ones.
InitialDelayShort(k) == IF k \in TabKeys THEN TAB_REPEAT_MS ELSE VOLUME_REPEAT_MS

\* The first wait and the later waits of a key's repeat thread.
InitialDelay(k) ==
    IF k \in TabKeys THEN TAB_REPEAT_INITIAL_MS ELSE VOLUME_REPEAT_INITIAL_MS

RepeatDelay(k) ==
    IF k \in TabKeys THEN TAB_REPEAT_MS ELSE VOLUME_REPEAT_MS

\* threading.Thread(target=_runner, daemon=True).start()
StartTicker(k) ==
    /\ n_tick' = n_tick + 1
    /\ ticker' = [ticker EXCEPT ![n_tick + 1] =
                     [pc |-> "waiting", key |-> k, stop |-> FALSE, left |-> InitialDelay(k)]]

\* A release that sets the stop event of every repeat thread.
SetStopAll(i) == ticker' = [j \in Tickers |-> [ticker[j] EXCEPT !.stop = TRUE]]

\* stop_evt.set() on the event popped from the dict (0: nothing was popped)
SetStop(i) ==
    ticker' = IF i = 0 THEN ticker ELSE [ticker EXCEPT ![i].stop = TRUE]

\* _tab_press(name, shift)
TabPress(name) ==
    /\ run_presses' = Counted(run_presses, name)
    /\ IF InDict(tab_state, name)
       THEN /\ UNCHANGED <<tab_state, ticker, n_tick, run_fires>>
            /\ out' = Note("press", name, "none", Became(tab_state[name] # 0, tab_state'[name] # 0))
       ELSE /\ n_tick < MaxTickers
            /\ Cardinality(ActiveKeys) < MaxHeld
            /\ tab_state' = [tab_state EXCEPT ![name] = n_tick + 1]
            /\ out' = Note("press", name, "send_tab_combo", Became(tab_state[name] # 0, tab_state'[name] # 0))
            /\ run_fires' = Counted(run_fires, name)
            /\ StartTicker(name)

\* _tab_release(name)
TabRelease(name) ==
    /\ tab_state' = [tab_state EXCEPT ![name] = 0]
    /\ SetStop(tab_state[name])
    /\ out' = Note("release", name, "none", FALSE)
    /\ run_presses' = [run_presses EXCEPT ![name] = 0]
    /\ run_fires' = [run_fires EXCEPT ![name] = 0]
    /\ UNCHANGED n_tick

\* _volume_press(name, up)
VolumePress(name) ==
    /\ run_presses' = Counted(run_presses, name)
    /\ IF InDict(volume_state, name)
       THEN /\ UNCHANGED <<volume_state, ticker, n_tick, run_fires>>
            /\ out' = Note("press", name, "none", Became(volume_state[name] # 0, volume_state'[name] # 0))
       ELSE /\ n_tick < MaxTickers
            /\ Cardinality(ActiveKeys) < MaxHeld
            /\ volume_state' = [volume_state EXCEPT ![name] = n_tick + 1]
            /\ out' = Note("press", name, "volume_step", Became(volume_state[name] # 0, volume_state'[name] # 0))
            /\ run_fires' = Counted(run_fires, name)
            /\ StartTicker(name)

\* _volume_release(name)
VolumeRelease(name) ==
    /\ volume_state' = [volume_state EXCEPT ![name] = 0]
    /\ SetStop(volume_state[name])
    /\ out' = Note("release", name, "none", FALSE)
    /\ run_presses' = [run_presses EXCEPT ![name] = 0]
    /\ run_fires' = [run_fires EXCEPT ![name] = 0]
    /\ UNCHANGED n_tick

\* The press notification of F17 or F18
TabKeyPress(k) ==
    /\ disp = "idle"
    /\ TabPress(k)
    /\ UNCHANGED <<disp, varsRefresh, varsTile, volume_state, toggle_state,
                   this_pc_state, maximize_state, ctrl>>

\* The release notification of F17 or F18
TabKeyRelease(k) ==
    /\ disp = "idle"
    /\ TabRelease(k)
    /\ UNCHANGED <<disp, varsRefresh, varsTile, volume_state, toggle_state,
                   this_pc_state, maximize_state, ctrl>>

\* _handle_f23_press / _handle_f24_press: with Ctrl held the key switches the
\* virtual desktop instead
VolumeKeyPress(k) ==
    /\ disp = "idle"
    /\ IF ctrl
       THEN /\ out' = Note("ctrl_press", k, "switch_virtual_desktop", FALSE)
            /\ UNCHANGED <<volume_state, ticker, n_tick, run_presses, run_fires>>
       ELSE VolumePress(k)
    /\ UNCHANGED <<disp, varsRefresh, varsTile, tab_state, toggle_state,
                   this_pc_state, maximize_state, ctrl>>

\* _handle_f23_release / _handle_f24_release: if keyboard.is_pressed("ctrl"): return
VolumeKeyRelease(k) ==
    /\ disp = "idle"
    /\ IF ctrl
       THEN /\ out' = Note("release", k, "none", FALSE)
            /\ run_presses' = [run_presses EXCEPT ![k] = 0]
            /\ run_fires' = [run_fires EXCEPT ![k] = 0]
            /\ UNCHANGED <<volume_state, ticker, n_tick>>
       ELSE VolumeRelease(k)
    /\ UNCHANGED <<disp, varsRefresh, varsTile, tab_state, toggle_state,
                   this_pc_state, maximize_state, ctrl>>

\* _toggle_desktop_press(name)
ToggleDesktopPress(name) ==
    /\ disp = "idle"
    /\ run_presses' = Counted(run_presses, name)
    /\ IF InSet(toggle_state, name)
       THEN /\ UNCHANGED <<toggle_state, run_fires>>
            /\ out' = Note("press", name, "none", Became(name \in toggle_state, name \in toggle_state'))
       ELSE /\ Cardinality(ActiveKeys) < MaxHeld
            /\ toggle_state' = toggle_state \cup {name}
            /\ out' = Note("press", name, "toggle_desktop", Became(name \in toggle_state, name \in toggle_state'))
            /\ run_fires' = Counted(run_fires, name)
    /\ UNCHANGED <<disp, varsRefresh, meter, probe, cast, varsTile, tab_state, volume_state,
                   this_pc_state, maximize_state, ctrl, ticker, n_tick>>

\* _toggle_desktop_release(name)
ToggleDesktopRelease(name) ==
    /\ disp = "idle"
    /\ toggle_state' = toggle_state \ {name}
    /\ out' = Note("release", name, "none", FALSE)
    /\ run_presses' = [run_presses EXCEPT ![name] = 0]
    /\ run_fires' = [run_fires EXCEPT ![name] = 0]
    /\ UNCHANGED <<disp, varsRefresh, meter, probe, cast, varsTile, tab_state, volume_state,
                   this_pc_state, maximize_state, ctrl, ticker, n_tick>>

\* _open_this_pc_press(name)
OpenThisPcPress(name) ==
    /\ disp = "idle"
    /\ run_presses' = Counted(run_presses, name)
    /\ IF InSet(this_pc_state, name)
       THEN /\ UNCHANGED <<this_pc_state, run_fires>>
            /\ out' = Note("press", name, "none", Became(name \in this_pc_state, name \in this_pc_state'))
       ELSE /\ Cardinality(ActiveKeys) < MaxHeld
            /\ this_pc_state' = this_pc_state \cup {name}
            /\ out' = Note("press", name, "open_this_pc", Became(name \in this_pc_state, name \in this_pc_state'))
            /\ run_fires' = Counted(run_fires, name)
    /\ UNCHANGED <<disp, varsRefresh, meter, probe, cast, varsTile, tab_state, volume_state,
                   toggle_state, maximize_state, ctrl, ticker, n_tick>>

\* _open_this_pc_release(name)
OpenThisPcRelease(name) ==
    /\ disp = "idle"
    /\ this_pc_state' = this_pc_state \ {name}
    /\ out' = Note("release", name, "none", FALSE)
    /\ run_presses' = [run_presses EXCEPT ![name] = 0]
    /\ run_fires' = [run_fires EXCEPT ![name] = 0]
    /\ UNCHANGED <<disp, varsRefresh, meter, probe, cast, varsTile, tab_state, volume_state,
                   toggle_state, maximize_state, ctrl, ticker, n_tick>>

\* _maximize_restore_active_window(): ShowWindow SW_RESTORE or SW_MAXIMIZE
MaximizeRestoreActiveWindow ==
    IF HasTarget
    THEN /\ win' = [win EXCEPT !.max = ~@]
         /\ last_cycle' = NoCycle
         /\ trail' = <<>>
    ELSE UNCHANGED <<win, last_cycle, trail>>

\* _maximize_press(name)
MaximizePress(name) ==
    /\ disp = "idle"
    /\ run_presses' = Counted(run_presses, name)
    /\ IF InSet(maximize_state, name)
       THEN /\ UNCHANGED <<maximize_state, run_fires, win, last_cycle, trail>>
            /\ out' = Note("press", name, "none", Became(name \in maximize_state, name \in maximize_state'))
       ELSE /\ Cardinality(ActiveKeys) < MaxHeld
            /\ maximize_state' = maximize_state \cup {name}
            /\ out' = Note("press", name, "maximize_restore", Became(name \in maximize_state, name \in maximize_state'))
            /\ run_fires' = Counted(run_fires, name)
            /\ MaximizeRestoreActiveWindow
    /\ UNCHANGED <<disp, varsRefresh, meter, probe, cast, now, last_trigger, pass_at, pass_axis, work_area,
                   fg, shift, key_down, moves_held, tab_state, volume_state,
                   toggle_state, this_pc_state, ctrl, ticker, n_tick>>

\* _maximize_release(name)
MaximizeRelease(name) ==
    /\ disp = "idle"
    /\ maximize_state' = maximize_state \ {name}
    /\ out' = Note("release", name, "none", FALSE)
    /\ run_presses' = [run_presses EXCEPT ![name] = 0]
    /\ run_fires' = [run_fires EXCEPT ![name] = 0]
    /\ UNCHANGED <<disp, varsRefresh, meter, probe, cast, varsTile, tab_state, volume_state,
                   toggle_state, this_pc_state, ctrl, ticker, n_tick>>

\* ------------------------------------------------------ the repeat threads
\* stop_evt.wait(delay) times out with the event not set: returns False
TickerTimeout(i) ==
    /\ ticker[i].pc = "waiting"
    /\ ticker[i].left = 0
    /\ ~ticker[i].stop
    /\ ticker' = [ticker EXCEPT ![i].pc = "step"]
    /\ out' = NoOut
    /\ UNCHANGED <<disp, varsRefresh, varsTile, tab_state, volume_state, toggle_state,
                   this_pc_state, maximize_state, ctrl, n_tick, run_presses, run_fires>>

\* stop_evt.wait(delay) returns True: the loop and the thread end
TickerStopped(i) ==
    /\ ticker[i].pc = "waiting"
    /\ ticker[i].stop
    /\ ticker' = [ticker EXCEPT ![i] = DeadTicker]
    /\ out' = NoOut
    /\ UNCHANGED <<disp, varsRefresh, varsTile, tab_state, volume_state, toggle_state,
                   this_pc_state, maximize_state, ctrl, n_tick, run_presses, run_fires>>

\* _send_tab_combo(shift) / _volume_step(up); delay = TAB_REPEAT_SEC / VOLUME_REPEAT_SEC
TickerStep(i) ==
    /\ ticker[i].pc = "step"
    /\ ticker' = [ticker EXCEPT ![i].pc = "waiting", ![i].left = RepeatDelay(ticker[i].key)]
    /\ out' = [note |-> "tick", key |-> ticker[i].key,
               op |-> IF ticker[i].key \in TabKeys THEN "send_tab_combo" ELSE "volume_step",
               by |-> i, late |-> ticker[i].stop, activated |-> FALSE]
    /\ UNCHANGED <<disp, varsRefresh, varsTile, tab_state, volume_state, toggle_state,
                   this_pc_state, maximize_state, ctrl, n_tick, run_presses, run_fires>>

\* Time passes for the waiting repeat threads.
ElapseTickers(d) ==
    /\ \E i \in Tickers : ticker[i].pc = "waiting" /\ ticker[i].left > 0
    /\ ticker' = [i \in Tickers |->
                     IF ticker[i].pc = "waiting"
                     THEN [ticker[i] EXCEPT !.left = Max(0, @ - d)]
                     ELSE ticker[i]]
    /\ out' = NoOut
    /\ UNCHANGED <<disp, varsRefresh, meter, probe, cast, varsTile, tab_state, volume_state, toggle_state,
                   this_pc_state, maximize_state, ctrl, n_tick, run_presses, run_fires>>

\* Ctrl goes down or up.
CtrlToggle ==
    /\ ctrl' = ~ctrl
    /\ out' = NoOut
    /\ UNCHANGED <<disp, varsRefresh, meter, probe, cast, varsTile, tab_state, volume_state, toggle_state,
                   this_pc_state, maximize_state, ticker, n_tick, run_presses, run_fires>>

GestureDeltas == {TAB_REPEAT_INITIAL_MS}

NextGesture ==
    \/ \E k \in TabKeys : TabKeyPress(k) /\ UNCHANGED <<meter, probe, cast>>
    \/ \E k \in TabKeys : TabKeyRelease(k) /\ UNCHANGED <<meter, probe, cast>>
    \/ \E k \in VolumeKeys : VolumeKeyPress(k) /\ UNCHANGED <<meter, probe, cast>>
    \/ \E k \in VolumeKeys : VolumeKeyRelease(k) /\ UNCHANGED <<meter, probe, cast>>
    \/ ToggleDesktopPress(TOGGLE_DESKTOP_HOTKEY)
    \/ ToggleDesktopRelease(TOGGLE_DESKTOP_HOTKEY)
    \/ OpenThisPcPress(OPEN_THIS_PC_HOTKEY)
    \/ OpenThisPcRelease(OPEN_THIS_PC_HOTKEY)
    \/ MaximizePress(MAX_HOTKEY)
    \/ MaximizeRelease(MAX_HOTKEY)
    \/ \E i \in Tickers : TickerTimeout(i) /\ UNCHANGED <<meter, probe, cast>>
    \/ \E i \in Tickers : TickerStopped(i) /\ UNCHANGED <<meter, probe, cast>>
    \/ \E i \in Tickers : TickerStep(i) /\ UNCHANGED <<meter, probe, cast>>
    \/ \E d \in GestureDeltas : ElapseTickers(d)
    \/ CtrlToggle

\* ------------------------------------------ targets and failing Win32 calls
\* The Win32 calls of a cycle that can fail once the window is resolved:
\* GetMonitorInfo, GetWindowPlacement, GetWindowRect, SetWindowPos.
FailPoints == {"work_area", "placement", "rect", "set_rect"}

\* ShowWindow(hwnd, SW_RESTORE) has run before the call that fails:
\* _cycle_widths restores just before _set_window_rect, _cycle_heights before
\* _get_window_rect, _get_monitor_work_area_for_window and _set_window_rect.
RestoredBefore(axis, at) ==
    IF Horizontal(axis) THEN at = "set_rect"
    ELSE at \in {"rect", "work_area", "set_rect"}

\* _cycle_widths(side) / _cycle_heights(anchor) with the call `at` raising:
\* neither function has a try, so the exception leaves the handler.
CycleFailing(axis, at) ==
    /\ DebouncePasses(now, last_trigger)
    /\ HasTarget
    /\ at = "rect" /\ Horizontal(axis) => ~win.max
    /\ last_trigger' = now
    /\ pass_at' = now
    /\ pass_axis' = axis
    /\ win' = IF win.max /\ RestoredBefore(axis, at) THEN [win EXCEPT !.max = FALSE] ELSE win
    /\ last_cycle' = [NoCycle EXCEPT !.axis = axis, !.before = win.rect, !.was_max = win.max,
                                     !.gap = Gap, !.passed = TRUE, !.hit = TRUE,
                                     !.failed = TRUE, !.raised = TRUE]
    /\ trail' = <<>>

\* A press notification of F13 or F15 during which a Win32 call fails.
CyclePressFails(k, at) ==
    /\ disp = "idle"
    /\ CycleFailing(AxisOfKey(k, shift), at)
    /\ UNCHANGED <<disp, varsRefresh, varsGest, meter, probe, cast, now, work_area, fg, shift,
                   key_down, moves_held>>

NextTarget ==
    \/ \E k \in CycleKeys : CyclePress(k)
    \/ \E k \in CycleKeys, at \in FailPoints : CyclePressFails(k, at)
    \/ AdvanceClock(WINDOW_CYCLE_DEBOUNCE_MS)
    \/ ShiftToggle
    \/ UserMaximize
    \/ MaximizePress(MAX_HOTKEY)
    \/ MaximizeRelease(MAX_HOTKEY)

\* ------------------------------------------------- repeat gestures, timed
\* history of one repeat thread's gesture: its key, the time since its press
\* (age, which stops at the release), the calls of the step function so far
\* (the immediate one included), whether the release handler has run, the
\* calls of the step function begun after it (after) and those begun with the
\* thread's stop event set (late).
NoMeter == [key |-> "none", age |-> 0, ticks |-> 0, released |-> FALSE, after |-> 0,
            late |-> 0]

InitMeter == meter = [i \in Tickers |-> NoMeter]

\* The press notification of a repeating key.
RepeatKeyPress(k) == IF k \in TabKeys THEN TabKeyPress(k) ELSE VolumeKeyPress(k)

\* The release notification of a repeating key.
RepeatKeyRelease(k) == IF k \in TabKeys THEN TabKeyRelease(k) ELSE VolumeKeyRelease(k)

TimedPress(k) ==
    /\ RepeatKeyPress(k)
    /\ meter' = IF n_tick' = n_tick THEN meter
                ELSE [meter EXCEPT ![n_tick'] =
                         [key |-> k, age |-> 0, ticks |-> 1, released |-> FALSE, after |-> 0,
                          late |-> 0]]
    /\ UNCHANGED <<probe, cast>>

TimedRelease(k) ==
    /\ RepeatKeyRelease(k)
    /\ meter' = [i \in Tickers |->
                    IF ticker'[i].stop /\ ~ticker[i].stop
                    THEN [meter[i] EXCEPT !.released = TRUE]
                    ELSE meter[i]]
    /\ UNCHANGED <<probe, cast>>

TimedStep(i) ==
    /\ TickerStep(i)
    /\ meter' = [meter EXCEPT ![i].ticks = @ + 1]
    /\ UNCHANGED <<probe, cast>>

\* A repeat thread has something to do now: its wait has timed out or has
\* been interrupted, or it is about to call the step function.
Due(i) ==
    \/ ticker[i].pc = "step"
    \/ ticker[i].pc = "waiting" /\ (ticker[i].stop \/ ticker[i].left = 0)

\* Time passes, up to the next timeout of a wait and with no thread late:
\* the claim's clock, on which a step takes no time.
TimedElapse(d) ==
    /\ d > 0
    /\ \A i \in Tickers : ~Due(i)
    /\ \E i \in Tickers : ticker[i].pc = "waiting"
    /\ \A i \in Tickers :
          ticker[i].pc = "waiting" => (d <= ticker[i].left /\ meter[i].age + d <= MaxAge)
    /\ ticker' = [i \in Tickers |->
                     IF ticker[i].pc = "waiting"
                     THEN [ticker[i] EXCEPT !.left = @ - d]
                     ELSE ticker[i]]
    /\ meter' = [i \in Tickers |->
                    IF ticker[i].pc = "waiting" /\ ~meter[i].released
                    THEN [meter[i] EXCEPT !.age = @ + d]
                    ELSE meter[i]]
    /\ out' = NoOut
    /\ UNCHANGED <<disp, varsRefresh, varsTile, tab_state, volume_state, toggle_state,
                   this_pc_state, maximize_state, ctrl, n_tick, run_presses, run_fires, probe, cast>>

\* The steps of time: a fixed one, and what is left of any wait.
TimeSteps == {TimeStep} \cup {ticker[i].left : i \in Tickers}

NextRepeat ==
    \/ \E k \in RepeatKeys : TimedPress(k)
    \/ \E k \in RepeatKeys : TimedRelease(k)
    \/ \E i \in Tickers : TickerTimeout(i) /\ UNCHANGED <<meter, probe, cast>>
    \/ \E i \in Tickers : TickerStopped(i) /\ UNCHANGED <<meter, probe, cast>>
    \/ \E i \in Tickers : TimedStep(i)
    \/ \E d \in TimeSteps : TimedElapse(d)

\* ----------------------------------------- repeat gestures, fair scheduling
\* The repeat thread the dict holds for a key (0: no entry).
ThreadOf(k) == IF k \in TabKeys THEN tab_state[k] ELSE volume_state[k]

\* The keys pressed under fair scheduling: one tab key and one volume key.
FairKeys == {NEXT_TAB_HOTKEY, VOLUME_UP_HOTKEY}

\* The press notification of a repeating key.
FairPress(k) ==
    /\ RepeatKeyPress(k)
    /\ meter' = IF n_tick' = n_tick THEN meter
                ELSE [meter EXCEPT ![n_tick'] =
                         [key |-> k, age |-> 0, ticks |-> 1, released |-> FALSE, after |-> 0,
                          late |-> 0]]
    /\ UNCHANGED <<probe, cast>>

\* The release notification of a repeating key: the release handler main()
\* registers for it has run for the gesture whose thread the dict holds.
FairRelease(k) ==
    /\ RepeatKeyRelease(k)
    /\ meter' = IF ThreadOf(k) = 0 THEN meter
                ELSE [meter EXCEPT ![ThreadOf(k)].released = TRUE]
    /\ UNCHANGED <<probe, cast>>

FairTimeout(i) == TickerTimeout(i) /\ UNCHANGED <<meter, probe, cast>>

FairStopped(i) == TickerStopped(i) /\ UNCHANGED <<meter, probe, cast>>

\* A call of the step function by a repeat thread, counted up to MaxRun.
FairStep(i) ==
    /\ TickerStep(i)
    /\ meter' = [meter EXCEPT ![i].ticks = Min(@ + 1, MaxRun),
                              ![i].after = IF meter[i].released THEN Min(@ + 1, MaxRun) ELSE @,
                              ![i].late = IF ticker[i].stop THEN Min(@ + 1, MaxRun) ELSE @]
    /\ UNCHANGED <<probe, cast>>

NextFair ==
    \/ \E k \in FairKeys : FairPress(k)
    \/ \E k \in FairKeys : FairRelease(k)
    \/ \E i \in Tickers : FairTimeout(i)
    \/ \E i \in Tickers : FairStopped(i)
    \/ \E i \in Tickers : FairStep(i)
    \/ \E d \in GestureDeltas : ElapseTickers(d)
    \/ CtrlToggle

\* Every repeat thread is scheduled again and again, and time passes.
Fairness ==
    /\ \A i \in Tickers : WF_vars(FairTimeout(i))
    /\ \A i \in Tickers : WF_vars(FairStopped(i))
    /\ \A i \in Tickers : WF_vars(FairStep(i))
    /\ \A d \in GestureDeltas : WF_vars(ElapseTickers(d))

\* ------------------------------------------- all six press-tracked actions
\* The keys of the press-tracked actions: maximize, toggle desktop, open This
\* PC, prev/next tab, volume down/up, refresh.
PressKeys == TrackedKeys \cup {REFRESH_HOTKEY}

\* The user works MaxCast of them in one behaviour.
Casts == {c \in SUBSET PressKeys : Cardinality(c) = MaxCast}

\* The press notification of one of the user's keys other than refresh.
KeyPress(k) ==
    /\ k \in cast
    /\ CASE k \in RepeatKeys -> FairPress(k)
         [] k = TOGGLE_DESKTOP_HOTKEY -> ToggleDesktopPress(k)
         [] k = OPEN_THIS_PC_HOTKEY -> OpenThisPcPress(k)
         [] k = MAX_HOTKEY -> MaximizePress(k)

\* Its release notification.
KeyRelease(k) ==
    /\ k \in cast
    /\ CASE k \in RepeatKeys -> FairRelease(k)
         [] k = TOGGLE_DESKTOP_HOTKEY -> ToggleDesktopRelease(k)
         [] k = OPEN_THIS_PC_HOTKEY -> OpenThisPcRelease(k)
         [] k = MAX_HOTKEY -> MaximizeRelease(k)

\* The press and release notifications of F16, and the steps of the release
\* handler and of the timer threads.
RefreshKey ==
    \/ REFRESH_HOTKEY \in cast /\ RefreshPressIgnored
    \/ REFRESH_HOTKEY \in cast /\ RefreshPressStart
    \/ REFRESH_HOTKEY \in cast /\ RefreshReleaseCancel
    \/ RefreshReleaseTap
    \/ RefreshReleaseClear
    \/ \E g \in Gestures : TimerExpire(g)
    \/ \E g \in Gestures : TimerCancelled(g)
    \/ \E g \in Gestures : HoldTest(g)
    \/ \E g \in Gestures : HoldSet(g)
    \/ \E g \in Gestures : HoldFire(g)
    \/ ElapseRefresh(REFRESH_HOLD_THRESHOLD_MS)

NextKeys ==
    \/ \E k \in TrackedKeys : KeyPress(k)
    \/ \E k \in TrackedKeys : KeyRelease(k)
    \/ RefreshKey
    \/ \E i \in Tickers : FairTimeout(i)
    \/ \E i \in Tickers : FairStopped(i)
    \/ \E i \in Tickers : FairStep(i)
    \/ \E d \in GestureDeltas : ElapseTickers(d)
    \/ CtrlToggle

\* ------------------------------------------------- calls of pure functions
NoProbe == [fn |-> "none", a |-> <<0, 0, 0, 0>>, b |-> <<0, 0, 0, 0>>, tol |-> 0,
            done |-> FALSE, close |-> FALSE, close_rev |-> FALSE, rect |-> <<0, 0, 0, 0>>,
            targets |-> <<>>]

Deltas == (0 - MaxDelta)..MaxDelta

\* Arguments of _rect_close: a rectangle, another one up to MaxDelta away
\* from it in each coordinate, and a tolerance.
RectCloseInputs ==
    {[NoProbe EXCEPT !.fn = "rect_close", !.a = a, !.tol = t,
                     !.b = <<a[1] + d1, a[2] + d2, a[3] + d3, a[4] + d4>>] :
        a \in {<<0, 0, 0, 0>>, <<-3, 2, 5, 9>>}, d1 \in Deltas, d2 \in Deltas,
        d3 \in Deltas, d4 \in Deltas, t \in 0..MaxTol}

ClampCoords == (0 - 1)..MaxCoord

\* Rectangles and work areas with edges from -1 to MaxCoord.
ClampDraws ==
    {[NoProbe EXCEPT !.fn = "clamp", !.a = <<l, 1, r, 2>>, !.b = <<wl, 0, wr, 9>>] :
        l \in ClampCoords, r \in ClampCoords, wl \in ClampCoords, wr \in ClampCoords}

\* Arguments of _clamp_width_to_work_area: a rectangle with r >= l and a work
\* area with wr >= wl.
ClampInputs ==
    {p \in ClampDraws : p.a[3] >= p.a[1] /\ p.b[3] >= p.b[1]}

\* _rect_close(a, b, tol) and _rect_close(b, a, tol)
CallRectClose ==
    /\ probe.fn = "rect_close"
    /\ ~probe.done
    /\ probe' = [probe EXCEPT !.done = TRUE,
                              !.close = RectClose(probe.a, probe.b, probe.tol),
                              !.close_rev = RectClose(probe.b, probe.a, probe.tol)]
    /\ UNCHANGED <<disp, varsRefresh, varsTile, varsGest, meter, cast>>

\* _clamp_width_to_work_area(rect, work_area), and the candidates
\* _make_vertical_target_rects builds on it for the same rectangle
CallClamp ==
    /\ probe.fn = "clamp"
    /\ ~probe.done
    /\ probe' = [probe EXCEPT !.done = TRUE,
                              !.rect = ClampWidthToWorkArea(probe.a, probe.b),
                              !.targets = MakeVerticalTargetRects(probe.b, WINDOW_WIDTHS,
                                                                  "bottom", probe.a)]
    /\ UNCHANGED <<disp, varsRefresh, varsTile, varsGest, meter, cast>>

NextPure == CallRectClose \/ CallClamp

InitState(areas, fgs) ==
    /\ disp = "idle"
    /\ InitRefresh
    /\ InitTile(areas, fgs)
    /\ InitGest
    /\ InitMeter

InitAll(areas, fgs) == InitState(areas, fgs) /\ probe = NoProbe /\ cast = PressKeys

SpecRefresh == InitAll(OneWorkArea, {"app"}) /\ [][NextRefresh]_vars

SpecTile == InitAll(WorkAreas, Windows) /\ [][NextTile]_vars

SpecDebounce == InitAll(OneWorkArea, {"app"}) /\ [][NextDebounce]_vars

SpecStream == InitAll(WorkAreas, Windows) /\ [][NextStream]_vars

SpecGesture == InitAll(OneWorkArea, {"app"}) /\ [][NextGesture]_vars

SpecRepeat == InitAll(OneWorkArea, {"app"}) /\ [][NextRepeat]_vars

SpecFair == InitAll(OneWorkArea, {"app"}) /\ [][NextFair]_vars /\ Fairness

SpecKeys ==
    /\ InitState(OneWorkArea, {"app"})
    /\ probe = NoProbe
    /\ cast \in Casts
    /\ [][NextKeys]_vars
    /\ Fairness

SpecTarget == InitAll(OneWorkArea, Windows) /\ [][NextTarget]_vars

SpecPure ==
    /\ InitState(OneWorkArea, {"app"})
    /\ probe \in RectCloseInputs \cup ClampInputs
    /\ cast = PressKeys
    /\ [][NextPure]_vars

\* ------------------------------------------------------------------ claims
\* A refresh gesture is over: its release handler has returned and its timer
\* thread has ended.
GestureOver(g) == g \in released /\ rtimer[g].pc = "done"

\* C1: every finished refresh gesture invoked exactly one of the tap action
\* and the hold action, whatever the interleaving of _hold_action and
\* _refresh_release.
C1_ExactlyOneOfTapHold ==
    \A g \in Gestures : GestureOver(g) => taps[g] + holds[g] = 1

\* C10: a gesture whose release was processed before its 400 ms were over
\* invoked the tap action once and the hold action never; a gesture whose
\* timer callback had ended before its release invoked the hold action once
\* and the tap action never.
C10_TapHoldTiming ==
    \A g \in Gestures :
        /\ (g \in early /\ GestureOver(g)) => (taps[g] = 1 /\ holds[g] = 0)
        /\ (g \in held_out /\ GestureOver(g)) => (holds[g] = 1 /\ taps[g] = 0)

\* The first half of C10: released early, so a tap.
C10_FirstHalf ==
    \A g \in Gestures :
        (g \in early /\ GestureOver(g)) => (taps[g] = 1 /\ holds[g] = 0)

\* The second half of C10: the callback ended first, so a hold.
C10_SecondHalf ==
    \A g \in Gestures :
        (g \in held_out /\ GestureOver(g)) => (holds[g] = 1 /\ taps[g] = 0)

\* The key of a repeating action has an entry in its dict.
Entry(k) == IF k \in TabKeys THEN InDict(tab_state, k) ELSE InDict(volume_state, k)

\* C2: once the release notification of a repeating action's key has been
\* processed, whatever the state of Ctrl, the action has no entry in its dict
\* and every repeat thread of that key has its stop event set.
C2_ReleaseCancelsRepeat ==
    \A k \in RepeatKeys :
        (out.note = "release" /\ out.key = k) =>
            /\ ~Entry(k)
            /\ \A i \in Tickers :
                  (ticker[i].key = k /\ ticker[i].pc \in {"waiting", "step"}) => ticker[i].stop

\* C3: a repeat thread never begins the step function after the release
\* handler has set its stop event and returned.
C3_NoTickAfterRelease == ~(out.note = "tick" /\ out.late)

\* The second sentence of C4: a press notification fires the action exactly
\* when the key's entry goes from absent to present.
C4_FiresEqualTransitions ==
    out.note = "press" => ((out.op # "none") <=> out.activated)

\* The first sentence of C4: since the last release notification of a key,
\* one or more press notifications of its action fired it exactly once.
C4_OncePerRun ==
    \A k \in TrackedKeys : run_presses[k] >= 1 => run_fires[k] = 1

\* C4: press notifications with no release in between fire the action
\* exactly once, and fires are exactly the absent-to-present transitions.
C4_GestureSuppression == C4_OncePerRun /\ C4_FiresEqualTransitions

\* The claim's D and I for a key: 350 ms, then 120 ms (tab) or 30 ms (volume).
ClaimedDelay(k) == 350

ClaimedInterval(k) == IF k \in {"f17", "f18"} THEN 120 ELSE 30

\* A timed repeat gesture is over: released, and its thread has ended.
Finished(i) == meter[i].released /\ ticker[i].pc = "dead"

\* The calls of the step function by time T of a repeat with initial delay
\* D and interval I: at 0, D, D+I, D+2I, ...
CallsBy(T, D, I) == IF T < D THEN 1 ELSE 2 + ((T - D) \div I)

\* T is one of the instants D, D+I, D+2I, ... of a repeat call.
AtCall(T, D, I) == T >= D /\ (T - D) % I = 0

\* C11 as claimed: a repeat cancelled at time T has called the step function
\* at 0, D, D+I, ... up to T and no more: once if T < D, twice if
\* D <= T < D+I.
C11_RepeatTickCount ==
    \A i \in Tickers :
        Finished(i) =>
            meter[i].ticks = CallsBy(meter[i].age, ClaimedDelay(meter[i].key),
                                     ClaimedInterval(meter[i].key))

\* C11 as amended: the count is as claimed for a cancel strictly between two
\* repeat instants (and before the first); a cancel at the very instant of a
\* repeat call comes with or without that call; and a gesture not yet
\* cancelled has made the calls due so far.
C11_RepeatTickCountStrict ==
    \A i \in Tickers :
        LET T == meter[i].age
            D == ClaimedDelay(meter[i].key)
            I == ClaimedInterval(meter[i].key)
        IN  /\ (Finished(i) /\ ~AtCall(T, D, I)) => meter[i].ticks = CallsBy(T, D, I)
            /\ (Finished(i) /\ AtCall(T, D, I)) =>
                  meter[i].ticks \in {CallsBy(T, D, I) - 1, CallsBy(T, D, I)}
            /\ (meter[i].key # "none" /\ ~meter[i].released /\ ~Due(i)) =>
                  meter[i].ticks = CallsBy(T, D, I)

C11_Witness ==
    \E i \in Tickers :
        /\ Finished(i)
        /\ meter[i].key = NEXT_TAB_HOTKEY
        /\ meter[i].age = 400
        /\ meter[i].ticks = 2

EdgesWithin(a, b, t) ==
    /\ a[1] - b[1] <= t /\ b[1] - a[1] <= t
    /\ a[2] - b[2] <= t /\ b[2] - a[2] <= t
    /\ a[3] - b[3] <= t /\ b[3] - a[3] <= t
    /\ a[4] - b[4] <= t /\ b[4] - a[4] <= t

\* C14: _rect_close(a, b, t) is true exactly when each of the four edges of a
\* and b differs by at most t; it gives the same for (b, a); for t = 0 it is
\* the equality of the two rectangles.
C14_RectsClose ==
    (probe.fn = "rect_close" /\ probe.done) =>
        /\ probe.close <=> EdgesWithin(probe.a, probe.b, probe.tol)
        /\ probe.close_rev <=> probe.close
        /\ probe.tol = 0 => (probe.close <=> probe.a = probe.b)

C14_Witness ==
    /\ probe.fn = "rect_close"
    /\ probe.done
    /\ probe.tol = 2
    /\ probe.a = <<-3, 2, 5, 9>>
    /\ probe.b = <<-5, 4, 3, 11>>
    /\ probe.close

\* A repeat thread that has not ended and can still call the step function:
\* it waits with its stop event not set, or its wait has timed out and the
\* call is next.
CanStep(i) ==
    \/ ticker[i].pc = "step"
    \/ ticker[i].pc = "waiting" /\ ~ticker[i].stop

\* C15: each repeating action has at most one repeat thread that can still
\* call the step function.
C15_OneLiveTicker ==
    \A k \in RepeatKeys :
        Cardinality({i \in Tickers : ticker[i].key = k /\ CanStep(i)}) <= 1

\* The window as the last cycle invocation found it, and its candidates.
Before == [rect |-> last_cycle.before, max |-> last_cycle.was_max]

Cands == Targets(last_cycle.axis, work_area, last_cycle.before)

\* The last invocation passed the debounce and had a window to act on.
Accepted == last_cycle.passed /\ last_cycle.hit

\* No two candidates are within the tolerance of each other.
Apart(targets) ==
    \A i, j \in 1..Len(targets) :
        i # j => ~RectClose(targets[i], targets[j], WINDOW_POS_TOL_PX)

\* The claim's progression: from candidate i to candidate (i+1) mod 3, and
\* three accepted invocations from candidate 0 visit 1, 2 and return to 0.
Progression ==
    /\ (Accepted /\ ~last_cycle.was_max) =>
          \A i \in 1..3 : last_cycle.before = Cands[i] => win.rect = Cands[(i % 3) + 1]
    /\ Len(trail) = 4 =>
          /\ trail[1] = Cands[1]
          /\ trail[2] = Cands[2]
          /\ trail[3] = Cands[3]
          /\ trail[4] = Cands[1]

\* C5: while a cycle key is held down, with auto-repeat press notifications
\* arriving, the window geometry changes at most once, and a press
\* notification of a key already down changes nothing.
C5_HeldKeyMovesOnce ==
    /\ \A k \in key_down : moves_held[k] <= 1
    /\ last_cycle.repeat => win = Before

\* C6 as claimed: the progression holds on every work area of positive width
\* and height.
C6_ProgressionAnyWorkArea == Progression

\* C6 as amended: the progression holds whenever the axis's three candidates
\* are pairwise more than the 2-pixel tolerance apart.
C6_ProgressionApart == Apart(Cands) => Progression

C6_Witness ==
    /\ Len(trail) = 4
    /\ last_cycle.axis = "bottom"
    /\ Accepted
    /\ Apart(Cands)
    /\ win.rect = Cands[1]

\* The last invocation came less than 100 ms after one that passed.
TooSoon == last_cycle.gap >= 0 /\ last_cycle.gap < WINDOW_CYCLE_DEBOUNCE_MS

\* C7: an invocation less than 100 ms after the last one that passed the
\* debounce is dropped and changes neither the window nor the debounce clock,
\* whatever the two directions; one 100 ms or more after it passes, and with
\* a window in the foreground it applies its axis's cycle step.
C7_Debounce ==
    last_cycle.axis # "none" =>
        /\ TooSoon =>
              (~last_cycle.passed /\ win = Before /\ last_trigger = pass_at)
        /\ ~TooSoon =>
              /\ last_cycle.passed
              /\ last_cycle.hit => win = CycleResult(last_cycle.axis, Before, work_area)

C7_Witness ==
    /\ last_cycle.axis = "top"
    /\ pass_axis = "left"
    /\ last_cycle.gap = 50
    /\ ~last_cycle.passed

\* The window the last invocation found was within the tolerance of no
\* candidate of its axis.
OffCycle == \A i \in 1..Len(Cands) : ~RectClose(last_cycle.before, Cands[i], WINDOW_POS_TOL_PX)

\* C13: an accepted cycle on a non-maximized window that is within the
\* 2-pixel tolerance of no candidate of the axis sets it to candidate 0.
C13_OffCycleReset ==
    (Accepted /\ ~last_cycle.was_max /\ OffCycle) =>
        win = [rect |-> Cands[1], max |-> FALSE]

C13_Witness ==
    /\ Accepted
    /\ ~last_cycle.was_max
    /\ OffCycle
    /\ last_cycle.axis = "top"
    /\ last_cycle.before[3] > work_area[3]
    /\ win.rect = Cands[1]

\* C16: a window at candidate i of one axis keeps its place in that axis's
\* cycle across an accepted cycle of the other orientation: the next accepted
\* cycle of the axis moves it to candidate (i+1) mod 3.
C16_CyclesIndependent ==
    (Accepted /\ ~last_cycle.was_max /\ last_cycle.prev_idx # 0) =>
        win.rect = Cands[(last_cycle.prev_idx % 3) + 1]

C18_HorizontalClamp ==
    (probe.fn = "clamp" /\ probe.done) =>
        LET w == probe.a[3] - probe.a[1]
            ww == probe.b[3] - probe.b[1]
        IN  /\ probe.rect[3] - probe.rect[1] = (IF w <= ww THEN w ELSE ww)
            /\ probe.rect[1] >= probe.b[1]
            /\ probe.rect[3] <= probe.b[3]
            /\ probe.rect[2] = probe.a[2]
            /\ probe.rect[4] = probe.a[4]
            /\ \A i \in 1..Len(probe.targets) :
                  /\ probe.targets[i][1] >= probe.b[1]
                  /\ probe.targets[i][3] <= probe.b[3]

C18_Witness ==
    /\ probe.fn = "clamp"
    /\ probe.done
    /\ probe.a = <<3, 1, 5, 2>>
    /\ probe.b = <<0, 0, 4, 9>>
    /\ probe.rect = <<2, 1, 4, 2>>
    /\ Len(probe.targets) = 3

\* A cycle handler ran in this step (accepted or dropped by the debounce).
CycleRan == last_cycle'.axis # "none" /\ (last_cycle' # last_cycle \/ pass_at' # pass_at)

\* A press of the maximize key fired _maximize_restore_active_window in this step.
MaximizeRan == out' # out /\ out'.note = "press" /\ out'.key = MAX_HOTKEY
                        /\ out'.op = "maximize_restore"

\* C19: with no foreground window, or a foreground window of a shell class, a
\* cycle invocation on any axis and a firing maximize/restore press leave the
\* rectangle and the maximized/normal state of the window as they were, and no
\* error leaves the handler.
C19_MissingTargetNoOp ==
    [][(fg \in {"none", "shell"} /\ (CycleRan \/ MaximizeRan)) =>
          (win' = win /\ ~last_cycle'.raised)]_vars

C19_Witness ==
    /\ fg = "shell"
    /\ last_cycle.axis = "bottom"
    /\ last_cycle.passed
    /\ ~last_cycle.hit
    /\ out.op = "maximize_restore"
    /\ win.max

\* C20: a geometry, placement or work-area call that fails during a cycle
\* invocation is recovered inside the action: the window is left as it was and
\* no error leaves the press handler.
C20_FailureContained ==
    last_cycle.failed => (~last_cycle.raised /\ win = Before)

\* C21: once the release handler of a tab or volume gesture has run, the
\* gesture's repeat thread eventually ends, and it calls the step function at
\* most once after the release.
C21_TickerTermination ==
    \A i \in Tickers :
        /\ meter[i].released ~> (ticker[i].pc = "dead")
        /\ [](meter[i].after <= 1)

\* The same for the gestures whose release reached _tab_release or
\* _volume_release (the thread's stop event is set).
StoppedTickerEnds ==
    \A i \in Tickers :
        /\ (meter[i].released /\ ticker[i].stop) ~> (ticker[i].pc = "dead")
        /\ [](meter[i].late <= 1)

\* A press-tracked action is Active: its key has an entry in its collection.
IsActive(k) ==
    IF k = REFRESH_HOTKEY THEN Truthy(refresh_state, "active") ELSE k \in ActiveKeys

\* This step belongs to the handling of a release notification of k.
ReleaseStep(k) ==
    IF k = REFRESH_HOTKEY THEN disp # "idle" \/ disp' # "idle"
    ELSE out'.note = "release" /\ out'.key = k /\ UNCHANGED varsRefresh

\* This step handles a press notification of k.
PressStep(k) ==
    /\ out'.note = "press"
    /\ out'.key = k
    /\ out' # out \/ run_presses' # run_presses

\* Nothing is fired and nothing is started for k by the dispatch thread.
FiresNothing(k) ==
    IF k = REFRESH_HOTKEY THEN n_gest' = n_gest /\ taps' = taps
    ELSE PressStep(k) => (out'.op = "none" /\ n_tick' = n_tick)

\* C22: an Active press-tracked action stays Active through every step that
\* is not the handling of its release notification, whatever timer, repeat
\* thread, later press or other event takes the step; a press of it in that
\* time fires nothing; and a repeat thread whose key has seen no release
\* notification calls the step function again and again.
C22_StuckNeverHeals ==
    /\ [][\A k \in PressKeys :
             (IsActive(k) /\ ~ReleaseStep(k)) => (IsActive(k)' /\ FiresNothing(k))]_vars
    /\ \A i \in Tickers :
          (meter[i].key # "none") ~>
              (meter[i].released \/ (out.note = "tick" /\ out.by = i))

C22_Witness ==
    \E i \in Tickers :
        /\ volume_state[VOLUME_UP_HOTKEY] = i
        /\ ~meter[i].released
        /\ meter[i].ticks = MaxRun
        /\ run_presses[VOLUME_UP_HOTKEY] = MaxRun
        /\ run_fires[VOLUME_UP_HOTKEY] = 1

\* C23: the hold action is invoked at most once per refresh gesture, and a
\* timer whose gesture has been released neither sets the hold flag nor
\* invokes the hold action.
C23_HoldOwnGesture ==
    \A g \in Gestures :
        /\ holds[g] <= 1
        /\ g \in released => rtimer[g].pc \notin {"set_hold", "fire_hold"}

\* The time from the start of the stream to its last invocation.
StreamAge == InvokedAt - StartTime

\* C24: in a stream of cycle invocations one every 50 ms, the invocations at
\* 0, 100, 200, ... ms pass the debounce and the others are dropped, and the
\* debounce timestamp is always the time of the last invocation that passed:
\* a dropped invocation does not move it, and the invocation exactly 100 ms
\* after a passing one passes.
C24_StreamNotStarved ==
    last_cycle.axis # "none" =>
        /\ last_cycle.passed <=> StreamAge % 100 = 0
        /\ last_trigger = StartTime + 100 * (StreamAge \div 100)
        /\ last_trigger = pass_at

C24_Witness ==
    /\ last_cycle.axis # "none"
    /\ StreamAge = 200
    /\ last_cycle.passed
    /\ last_cycle.gap = 100
    /\ now = InvokedAt

\* The entries of the five collections, the repeat threads and the window
\* stay as they are.
GesturesUnchanged ==
    UNCHANGED <<tab_state, volume_state, toggle_state, this_pc_state, maximize_state,
                ticker, n_tick, win>>

\* C25: the handling of a release notification of an action that is not
\* Active invokes no action (no tap, no hold, no step, no toggle), sets no
\* repeat thread's stop event, cancels no timer, and leaves every action as
\* it was, the released one not Active; in particular a refresh release with
\* no press before it does not call the tap action.
C25_ReleaseInIdleNoOp ==
    [][/\ \A k \in TrackedKeys :
             (~IsActive(k) /\ ReleaseStep(k)) =>
                 (out'.op = "none" /\ ~IsActive(k)' /\ GesturesUnchanged)
       /\ (~IsActive(REFRESH_HOTKEY) /\ disp' # disp) =>
             /\ disp = "refresh_release_test" => ~TapDue(refresh_state)
             /\ taps' = taps
             /\ holds' = holds
             /\ rtimer' = rtimer
             /\ n_gest' = n_gest
             /\ ~IsActive(REFRESH_HOTKEY)'
             /\ GesturesUnchanged]_vars

C25_Witness ==
    /\ disp = "refresh_release_clear"
    /\ ~IsActive(REFRESH_HOTKEY)
    /\ n_gest = 1
    /\ 1 \in released
    /\ taps[1] = 1

\* C8: an accepted cycle(Left) or cycle(Right) on a maximized window leaves it
\* restored at candidate 0 of that side, whatever rectangle it restores to.
C8_MaximizedResetHorizontal ==
    (Accepted /\ last_cycle.was_max /\ last_cycle.axis \in {"left", "right"}) =>
        win = [rect |-> Cands[1], max |-> FALSE]

C8_Witness ==
    /\ Accepted
    /\ last_cycle.was_max
    /\ last_cycle.axis = "right"
    /\ Apart(Cands)
    /\ last_cycle.before = Cands[1]
    /\ win = [rect |-> Cands[1], max |-> FALSE]

\* C9: an accepted cycle(Top) or cycle(Bottom) on a maximized window leaves it
\* restored at candidate 0 of that anchor, whatever rectangle it restores to.
C9_MaximizedResetVertical ==
    (Accepted /\ last_cycle.was_max /\ last_cycle.axis \in {"top", "bottom"}) =>
        win = [rect |-> Cands[1], max |-> FALSE]

=============================================================================
